---- MODULE Spec2Model ----
(***************************************************************************)
(* A model of fietsat.py: the FietSAT class (parse, vid/obj, formulate,    *)
(* solve, report).  Drivers are assigned to routes by encoding the rules   *)
(* as CNF clauses over variables d_{did}_{rid}_{exp}.                      *)
(*                                                                         *)
(* The two pysat collaborators are modelled by their contracts:            *)
(*   - CardEnc.atmost / CardEnc.equals return clauses that enforce "at     *)
(*     most one" / "exactly one" of the given literals, taking the         *)
(*     auxiliary variables they need from the shared IDPool;               *)
(*   - Solver.solve answers whether the clauses appended so far have a     *)
(*     model and get_model returns one of them (any of them: the choice    *)
(*     is the solver's), one signed literal per variable.                  *)
(* Driver names and route start/end strings play no part in any decision   *)
(* of the code and are left out of the records.                            *)
(***************************************************************************)
EXTENDS Integers, Sequences, FiniteSets, TLC

\* ------------------------------------------------------------------ bounds
MaxDrivers == 4
MaxFormulate == 2
MaxSolve == 2

\* python: range(4, 0, -1), the experience levels in the order formulate visits them
ExpsDesc == <<4, 3, 2, 1>>
MaxExp == 4

Abs(x) == IF x < 0 THEN -x ELSE x
Max2(a, b) == IF a > b THEN a ELSE b
Min2(a, b) == IF a < b THEN a ELSE b
Range(s) == {s[i] : i \in 1..Len(s)}

\* the lists of a list of lists, joined in order (the list is taken by
\* halves, which keeps the nesting of the evaluation shallow)
RECURSIVE Flatten(_)
Flatten(ss) ==
  IF Len(ss) = 0 THEN <<>>
  ELSE IF Len(ss) = 1 THEN ss[1]
  ELSE Flatten(SubSeq(ss, 1, Len(ss) \div 2))
       \o Flatten(SubSeq(ss, (Len(ss) \div 2) + 1, Len(ss)))

\* ------------------------------------------------------------ text of names
\* A python str is a sequence of one-character strings.
DigitChar == <<"0", "1", "2", "3", "4", "5", "6", "7", "8", "9">>

RECURSIVE NatStr(_)
NatStr(n) == IF n < 10 THEN <<DigitChar[n + 1]>>
             ELSE NatStr(n \div 10) \o <<DigitChar[(n % 10) + 1]>>

\* python: str(n) as an f-string field {n} renders an int
IntStr(n) == IF n < 0 THEN <<"-">> \o NatStr(-n) ELSE NatStr(n)

\* the name with the driver and route fields in each other's place
SymNameSwapped(did, rid, exp) ==
  <<"d", "_">> \o IntStr(rid) \o <<"_">> \o IntStr(did) \o <<"_">> \o IntStr(exp)

\* python: f'd_{did}_{rid}_{exp}'
SymName(did, rid, exp) ==
  <<"d", "_">> \o IntStr(did) \o <<"_">> \o IntStr(rid) \o <<"_">> \o IntStr(exp)

\* the position of the k-th separator of s; 0 for k = 0 and Len(s) + 1 for
\* the one past the last
SepAt(s, k) ==
  IF k = 0 THEN 0
  ELSE IF k > Cardinality({i \in 1..Len(s) : s[i] = "_"}) THEN Len(s) + 1
  ELSE CHOOSE i \in 1..Len(s) :
         s[i] = "_" /\ Cardinality({j \in 1..i : s[j] = "_"}) = k

\* python: str.split('_'): the fields between the separators, in order
Split(s) ==
  [k \in 1..(Cardinality({i \in 1..Len(s) : s[i] = "_"}) + 1) |->
     SubSeq(s, SepAt(s, k - 1) + 1, SepAt(s, k) - 1)]

DigitVal(c) == (CHOOSE k \in 1..10 : DigitChar[k] = c) - 1

RECURSIVE NatVal(_, _)
NatVal(f, acc) == IF f = <<>> THEN acc
                  ELSE NatVal(Tail(f), 10 * acc + DigitVal(Head(f)))

\* python: int(field)
IntVal(f) == IF Head(f) = "-" THEN -NatVal(Tail(f), 0) ELSE NatVal(f, 0)

\* python: did, rid, exp = map(int, sym.split('_')[1:])
ParseSym(sym) ==
  LET fs == Tail(Split(sym)) IN <<IntVal(fs[1]), IntVal(fs[2]), IntVal(fs[3])>>

\* ------------------------------------------------------------------ IDPool
NoFn == [x \in {} |-> 0]

\* pysat IDPool(): top is the largest integer handed out so far
EmptyPool == [top |-> 0, obj2id |-> NoFn, id2obj |-> NoFn]

\* IDPool.id(obj): the integer bound to obj, a fresh one on first use
PoolId(pool, name) ==
  IF name \in DOMAIN pool.obj2id THEN pool
  ELSE [top |-> pool.top + 1,
        obj2id |-> pool.obj2id @@ (name :> pool.top + 1),
        id2obj |-> pool.id2obj @@ ((pool.top + 1) :> name)]

\* IDPool.obj(vid): the object bound to vid, None for an integer with no name
None == <<>>
PoolObj(pool, v) == IF v \in DOMAIN pool.id2obj THEN pool.id2obj[v] ELSE None

\* a vid that binds the name to a fresh integer on every call
vidFresh(pool, did, rid, exp) ==
  [top |-> pool.top + 1,
   obj2id |-> (SymName(did, rid, exp) :> pool.top + 1) @@ pool.obj2id,
   id2obj |-> pool.id2obj @@ ((pool.top + 1) :> SymName(did, rid, exp))]

\* FietSAT.vid(did, rid, exp) acts on self.syms: the pool after the call (the
\* integer it returns is the one the pool then holds for the name)
vid(pool, did, rid, exp) == PoolId(pool, SymName(did, rid, exp))

\* FietSAT.obj(vid)
obj(pool, v) == PoolObj(pool, v)

\* the bounds of the k-th of the four parts a list of n entries is run
\* through by, k = 1..4: entries PartLo(n, k) .. PartHi(n, k)
PartLo(n, k) == ((k - 1) * ((n + 3) \div 4)) + 1

PartHi(n, k) == Min2(n, k * ((n + 3) \div 4))

Part(s, k) == SubSeq(s, PartLo(Len(s), k), PartHi(Len(s), k))

\* python: [self.vid(did, rid, exp) for ...]: vid for each triple of a list in
\* turn; the pool after the calls.  (The list is run through by parts, one
\* part after the other, which keeps the nesting of the evaluation shallow;
\* the tests of top, which is never negative, make TLC finish a part before
\* it starts on the next.)
RECURSIVE VidAll(_, _)
VidAll(pool, triples) ==
  IF Len(triples) = 0 THEN pool
  ELSE IF Len(triples) = 1
  THEN vid(pool, triples[1][1], triples[1][2], triples[1][3])
  ELSE LET p1 == VidAll(pool, Part(triples, 1))
           p2 == VidAll(p1, Part(triples, 2))
           p3 == VidAll(p2, Part(triples, 3))
       IN IF p1.top < 0 \/ p2.top < 0 \/ p3.top < 0 THEN p3
          ELSE VidAll(p3, Part(triples, 4))

\* the integers those calls returned: a name's integer never changes, so they
\* are the ones the pool holds after the calls
VidList(pool, triples) ==
  [i \in 1..Len(triples) |->
     pool.obj2id[SymName(triples[i][1], triples[i][2], triples[i][3])]]

\* ----------------------------------------------------------------- CardEnc
\* A sequential encoding of "at most one of lits": auxiliary s_i, i < n, is
\* defined as lits[1] \/ ... \/ lits[i] (both implications), and lits[i+1]
\* excludes s_i.  The n-1 auxiliary variables are taken from the pool, which
\* binds no name to them.
AuxDef(lits, top, i) ==
  IF i = 1 THEN << <<-lits[1], top + 1>>, <<-(top + 1), lits[1]>> >>
  ELSE << <<-lits[i], top + i>>, <<-(top + i - 1), top + i>>,
          <<-(top + i), top + i - 1, lits[i]>> >>

AtMostClauses(lits, top) ==
  Flatten([i \in 1..(Len(lits) - 1) |-> AuxDef(lits, top, i)])
  \o [i \in 1..(Len(lits) - 1) |-> <<-lits[i + 1], -(top + i)>>]

\* CardEnc.atmost(lits, vpool=pool) with the default bound 1:
\* [pool, clauses, aux]
AtMost(pool, lits) ==
  IF Len(lits) <= 1 THEN [pool |-> pool, clauses |-> <<>>, aux |-> {}]
  ELSE [pool |-> [pool EXCEPT !.top = pool.top + Len(lits) - 1],
        clauses |-> AtMostClauses(lits, pool.top),
        aux |-> (pool.top + 1)..(pool.top + Len(lits) - 1)]

\* CardEnc.equals(lits, vpool=pool) with the default bound 1: at least one
\* (the clause of all the literals, the empty clause for no literal) and at
\* most one
Equals(pool, lits) ==
  LET am == AtMost(pool, lits)
  IN [pool |-> am.pool, clauses |-> <<lits>> \o am.clauses, aux |-> am.aux]

\* ------------------------------------------------------------ domain model
\* the position of the entry with this id in a dict kept as a sequence of
\* records in insertion order; 0 when the key is missing
IndexOf(info, id) ==
  IF \E i \in 1..Len(info) : info[i].id = id
  THEN CHOOSE i \in 1..Len(info) : info[i].id = id
  ELSE 0

\* the loop "for did in drivers_info: for rid in drivers_info[did].routes"
\* visits these (did, rid) pairs in this order
EligPairs(dinfo) ==
  Flatten([i \in 1..Len(dinfo) |->
             [j \in 1..Len(dinfo[i].routes) |-> <<dinfo[i].id, dinfo[i].routes[j]>>]])

\* the drivers of the pairs of route rt, in the order of the pairs
DriversIn(pairs, rt) ==
  LET mine == SelectSeq(pairs, LAMBDA pr : pr[2] = rt)
  IN [k \in 1..Len(mine) |-> mine[k][1]]

\* a fill that files every driver under the first route
FillFirst(rinfo, pairs) ==
  IF \E k \in 1..Len(pairs) : IndexOf(rinfo, pairs[k][2]) = 0
  THEN [err |-> "KeyError", info |-> rinfo]
  ELSE [err |-> "",
        info |-> [j \in 1..Len(rinfo) |->
                    IF j = 1
                    THEN [rinfo[j] EXCEPT !.drivers =
                            @ \o [k \in 1..Len(pairs) |-> pairs[k][1]]]
                    ELSE rinfo[j]]]

\* routes_info[rid].drivers.append(did) for each pair in turn; indexing a
\* route id that is not a key raises KeyError
Fill(rinfo, pairs) ==
  IF \E k \in 1..Len(pairs) : IndexOf(rinfo, pairs[k][2]) = 0
  THEN [err |-> "KeyError", info |-> rinfo]
  ELSE [err |-> "",
        info |-> [j \in 1..Len(rinfo) |->
                    [rinfo[j] EXCEPT !.drivers = @ \o DriversIn(pairs, rinfo[j].id)]]]

\* FietSAT.parse: (drivers_info, routes_info), or the KeyError it raises
parse(dfile, rfile) ==
  LET dinfo == dfile
      rinfo == [i \in 1..Len(rfile) |-> [id |-> rfile[i].id, drivers |-> <<>>]]
      filled == Fill(rinfo, EligPairs(dinfo))
  IN [err |-> filled.err, drivers_info |-> dinfo, routes_info |-> filled.info]

\* FietSAT.drivers(), routes(), routes_of(did), drivers_of(rid), exp(did)
drivers(dinfo) == [i \in 1..Len(dinfo) |-> dinfo[i].id]
routes(rinfo) == [i \in 1..Len(rinfo) |-> rinfo[i].id]
routes_of(dinfo, did) == dinfo[IndexOf(dinfo, did)].routes
drivers_of(rinfo, rid) == rinfo[IndexOf(rinfo, rid)].drivers
exp(dinfo, did) == dinfo[IndexOf(dinfo, did)].exp

\* ---------------------------------------------------------------- formulate
\* The literal lists of the four comprehensions, as lists of triples, in the
\* order the comprehensions visit them.
\* c_1: for did in drivers() for rid in routes_of(did): exp in range(4, 0, -1)
c_1Lists(dinfo) ==
  Flatten([i \in 1..Len(dinfo) |->
    [j \in 1..Len(dinfo[i].routes) |->
      [e \in 1..Len(ExpsDesc) |-> <<dinfo[i].id, dinfo[i].routes[j], ExpsDesc[e]>>]]])

\* c_2: for did in drivers(): for rid in routes_of(did) for exp in range(4, 0, -1)
c_2Lists(dinfo) ==
  [i \in 1..Len(dinfo) |->
    Flatten([j \in 1..Len(dinfo[i].routes) |->
      [e \in 1..Len(ExpsDesc) |-> <<dinfo[i].id, dinfo[i].routes[j], ExpsDesc[e]>>]])]

\* c_3: for rid in routes() for exp in range(4, 0, -1): did in drivers_of(rid)
c_3Lists(rinfo) ==
  Flatten([i \in 1..Len(rinfo) |->
    [e \in 1..Len(ExpsDesc) |->
      [k \in 1..Len(rinfo[i].drivers) |-> <<rinfo[i].drivers[k], rinfo[i].id, ExpsDesc[e]>>]]])

\* c_4 with the levels from exp(did)+2 on: range(self.exp(did)+2, 5)
c_4TriplesFromNext(dinfo) ==
  Flatten(Flatten([i \in 1..Len(dinfo) |->
    [j \in 1..Len(dinfo[i].routes) |->
      [e \in 1..(MaxExp - exp(dinfo, dinfo[i].id) - 1) |->
        <<dinfo[i].id, dinfo[i].routes[j], exp(dinfo, dinfo[i].id) + 1 + e>>]]]))

\* c_4: for did in drivers() for rid in routes_of(did)
\*      for exp in range(self.exp(did)+1, 5)
c_4Triples(dinfo) ==
  Flatten(Flatten([i \in 1..Len(dinfo) |->
    [j \in 1..Len(dinfo[i].routes) |->
      [e \in 1..(MaxExp - exp(dinfo, dinfo[i].id)) |->
        <<dinfo[i].id, dinfo[i].routes[j], exp(dinfo, dinfo[i].id) + e>>]]]))

\* formulate runs through the four comprehensions in turn; what it has built
\* so far is [pool, groups, aux]: self.syms, the clause groups finished or
\* under way (the last one is under way), and the auxiliary variables taken.
Start(pool) == [pool |-> pool, groups |-> <<>>, aux |-> {}]

NewGroup(st) == [st EXCEPT !.groups = Append(@, <<>>)]

\* one more element (the clauses enc of one encoder call) of the group under way
Emit(st, enc) ==
  [pool |-> enc.pool,
   groups |-> [st.groups EXCEPT ![Len(st.groups)] = Append(@, enc.clauses)],
   aux |-> st.aux \cup enc.aux]

\* CardEnc.<kind>([self.vid(...) for ...], vpool=self.syms).clauses, pool being
\* the pool after the list was built
CardEnc(kind, pool, triples) ==
  IF kind = "atmost" THEN AtMost(pool, VidList(pool, triples))
  ELSE Equals(pool, VidList(pool, triples))

\* one CardEnc call on the literal list of these triples
EncodeOne(st, triples, kind) ==
  LET pool == VidAll(st.pool, triples)
  IN IF pool.top < 0 THEN st ELSE Emit(st, CardEnc(kind, pool, triples))

\* one CardEnc call per literal list, in the order of the lists (by parts, as
\* in VidAll)
RECURSIVE Encode(_, _, _)
Encode(st, lists, kind) ==
  IF Len(lists) = 0 THEN st
  ELSE IF Len(lists) = 1 THEN EncodeOne(st, lists[1], kind)
  ELSE LET s1 == Encode(st, Part(lists, 1), kind)
           s2 == Encode(s1, Part(lists, 2), kind)
           s3 == Encode(s2, Part(lists, 3), kind)
       IN IF s1.pool.top < 0 \/ s2.pool.top < 0 \/ s3.pool.top < 0 THEN s3
          ELSE Encode(s3, Part(lists, 4), kind)

\* [[-self.vid(did, rid, exp)]], the clauses of one element of c_4
Unit(pool, t) ==
  [pool |-> pool, clauses |-> << <<-pool.obj2id[SymName(t[1], t[2], t[3])]>> >>,
   aux |-> {}]

\* one element of c_4
ForbidOne(st, t) ==
  LET pool == vid(st.pool, t[1], t[2], t[3])
  IN IF pool.top < 0 THEN st ELSE Emit(st, Unit(pool, t))

\* one element of c_4 per triple, in the order of the triples (by parts, as
\* in VidAll)
RECURSIVE Forbid(_, _)
Forbid(st, triples) ==
  IF Len(triples) = 0 THEN st
  ELSE IF Len(triples) = 1 THEN ForbidOne(st, triples[1])
  ELSE LET s1 == Forbid(st, Part(triples, 1))
           s2 == Forbid(s1, Part(triples, 2))
           s3 == Forbid(s2, Part(triples, 3))
       IN IF s1.pool.top < 0 \/ s2.pool.top < 0 \/ s3.pool.top < 0 THEN s3
          ELSE Forbid(s3, Part(triples, 4))

\* At most one experience level per driver and route
c_1(st, dinfo) == Encode(NewGroup(st), c_1Lists(dinfo), "atmost")

\* c_2 left out
c_2None(st, dinfo) == NewGroup(st)

\* At most one route per driver
c_2(st, dinfo) == Encode(NewGroup(st), c_2Lists(dinfo), "atmost")

\* c_3 with CardEnc.atmost in the place of CardEnc.equals
c_3AtMost(st, rinfo) == Encode(NewGroup(st), c_3Lists(rinfo), "atmost")

\* Exactly one driver per experience level per route
c_3(st, rinfo) == Encode(NewGroup(st), c_3Lists(rinfo), "equals")

\* No driver is assigned to an experience level above his
c_4(st, dinfo) == Forbid(NewGroup(st), c_4Triples(dinfo))

\* FietSAT.formulate: [pool, groups, aux]: self.syms after it, self.problem
\* (= [c_1, c_2, c_3, c_4]) and the auxiliary variables the encoder took
\* (the test of top makes TLC finish each group before it starts on the next)
formulate(pool, dinfo, rinfo) ==
  LET g1 == c_1(Start(pool), dinfo)
      g2 == c_2(g1, dinfo)
      g3 == c_3(g2, rinfo)
  IN IF g1.pool.top < 0 \/ g2.pool.top < 0 \/ g3.pool.top < 0 THEN g3
     ELSE c_4(g3, dinfo)

\* ------------------------------------------------------------------- Solver
\* The solver holds the clauses appended so far, each as the set of its
\* literals.
ClauseSet(clause) == Range(clause)

\* python: for c_group in self.problem: for formula in c_group:
\*           self.solver.append_formula(formula)
ProblemClauses(prob) ==
  UNION {UNION {{ClauseSet(prob[g][f][k]) : k \in DOMAIN prob[g][f]} :
                  f \in DOMAIN prob[g]} :
           g \in DOMAIN prob}

\* the solver's variables: 1 .. the largest one any clause mentions
NofVars(cls) ==
  LET vs == {Abs(l) : l \in UNION cls}
  IN IF vs = {} THEN 0 ELSE CHOOSE v \in vs : \A w \in vs : w <= v

\* cls with the literals of the set ls made true
Assign(cls, ls) == {c \ {-l : l \in ls} : c \in {d \in cls : d \cap ls = {}}}

\* the literals of the unit clauses of cls
Units(cls) == UNION {c \in cls : Cardinality(c) = 1}

\* The search works on [cls, asg]: the clauses still to satisfy and the
\* literals made true so far.  One round of unit propagation: the unit
\* literals are made true; two opposite units, or a unit opposite to asg,
\* leave the empty clause.
Round(s) ==
  LET units == Units(s.cls)
  IN IF {} \in s.cls \/ units = {} THEN s
     ELSE IF \E l \in units : -l \in units \cup s.asg
     THEN [cls |-> {{}}, asg |-> s.asg]
     ELSE [cls |-> Assign(s.cls, units), asg |-> s.asg \cup units]

\* 2, 4, 8 and 16 rounds.  (The test of DOMAIN, which is never empty, makes
\* TLC compute the first half of the rounds before it starts on the second,
\* which keeps the nesting of the evaluation shallow.)
Rounds2(s) == LET a == Round(s) IN IF DOMAIN a = {} THEN a ELSE Round(a)

Rounds4(s) == LET a == Rounds2(s) IN IF DOMAIN a = {} THEN a ELSE Rounds2(a)

Rounds8(s) == LET a == Rounds4(s) IN IF DOMAIN a = {} THEN a ELSE Rounds4(a)

Rounds16(s) == LET a == Rounds8(s) IN IF DOMAIN a = {} THEN a ELSE Rounds8(a)

\* s with the literal l made true
Decide(s, l) == [cls |-> Assign(s.cls, {l}), asg |-> s.asg \cup {l}]

\* every assignment (a set of literals) extending s.asg that satisfies s.cls,
\* found by unit propagation and case split
RECURSIVE Search(_)
Search(s) ==
  LET p == Rounds16(s)
  IN IF {} \in p.cls THEN {}
     ELSE IF p.cls = {} THEN {p.asg}
     ELSE IF Units(p.cls) # {} THEN Search(p)
     ELSE Search(Decide(p, CHOOSE l \in UNION p.cls : TRUE))
          \cup Search(Decide(p, -(CHOOSE l \in UNION p.cls : TRUE)))

\* the variables of vs that asg leaves open take either value
Complete(asg, vs) ==
  LET free == {v \in vs : v \notin asg /\ -v \notin asg}
  IN {asg \cup {IF v \in T THEN v ELSE -v : v \in free} : T \in SUBSET free}

\* The models of cls, each as get_model() returns it: one signed literal per
\* variable, in variable order.  Which model of the clauses the search ends in
\* is the solver's choice; a variable that no clause mentions is never
\* touched by the search and keeps the solver's default polarity, false.
Models(cls) ==
  LET nv == NofVars(cls)
      vs == {Abs(l) : l \in UNION cls}
  IN {[i \in 1..nv |-> IF i \in m THEN i ELSE -i] :
        m \in UNION {Complete(a, vs) : a \in Search([cls |-> cls, asg |-> {}])}}

\* -------------------------------------------------------------------- report
\* python: sorted(pairs, key=lambda sol_pair: sol_pair[1], reverse=True):
\* stable, larger exp first
\* the place of pairs[i] in the sorted list: behind the pairs of a larger exp
\* and the earlier pairs of the same exp
PlaceDesc(pairs, i) ==
  1 + Cardinality({j \in 1..Len(pairs) :
                     \/ pairs[j][2] > pairs[i][2]
                     \/ (pairs[j][2] = pairs[i][2] /\ j < i)})

SortDesc(pairs) ==
  [k \in 1..Len(pairs) |->
     pairs[CHOOSE i \in 1..Len(pairs) : PlaceDesc(pairs, i) = k]]

\* python: solution = {rid: [] for rid in range(1, len(self.routes()) + 1)}
EmptySolution(rinfo) == [rid \in 1..Len(routes(rinfo)) |-> <<>>]

\* the literals of the loop "for lit in self.model" that pass "lit > 0" and
\* "sym is not None", in the order of the model
NamedLits(pool, mdl) ==
  SelectSeq(mdl, LAMBDA lit : lit > 0 /\ obj(pool, lit) # None)

\* did, rid, exp = map(int, sym.split('_')[1:]) for the symbol of lit
SymOf(pool, lit) == ParseSym(obj(pool, lit))

\* the (did, exp) pairs that solution[rid].append adds under the key rid for
\* the literals lits, in their order
PairsOf(pool, lits, rid) ==
  LET mine == SelectSeq(lits, LAMBDA lit : SymOf(pool, lit)[2] = rid)
  IN [k \in 1..Len(mine) |-> <<SymOf(pool, mine[k])[1], SymOf(pool, mine[k])[3]>>]

\* the loop "for lit in self.model": the solution, or the KeyError of
\* solution[rid] at the first literal whose rid is no key, with the solution
\* as the literals before it left it
Decode(pool, mdl, sol) ==
  LET lits == NamedLits(pool, mdl)
      bad == {i \in DOMAIN lits : SymOf(pool, lits[i])[2] \notin DOMAIN sol}
      n == IF bad = {} THEN Len(lits)
           ELSE (CHOOSE i \in bad : \A j \in bad : i <= j) - 1
  IN [err |-> IF bad = {} THEN "" ELSE "KeyError",
      solution |-> [rid \in DOMAIN sol |->
                      sol[rid] \o PairsOf(pool, SubSeq(lits, 1, n), rid)]]

\* the lines printed for the routes from key rid on: self.route_info(rid)
\* raises KeyError for a key that is no route id
RECURSIVE PrintRoutes(_, _, _)
PrintRoutes(rinfo, sol, rid) ==
  IF rid \notin DOMAIN sol THEN [err |-> "", lines |-> <<>>]
  ELSE IF IndexOf(rinfo, rid) = 0 THEN [err |-> "KeyError", lines |-> <<>>]
  ELSE LET rest == PrintRoutes(rinfo, sol, rid + 1)
           ps == SortDesc(sol[rid])
       IN [err |-> rest.err,
           lines |-> << <<"Route", rid>> >>
                     \o [k \in 1..Len(ps) |-> <<"Driver", ps[k][1], ps[k][2]>>]
                     \o rest.lines]

\* FietSAT.report: what it returns or raises, and what it prints
report(pool, mdl, dinfo, rinfo) ==
  IF mdl # <<>>
  THEN LET dec == Decode(pool, mdl, EmptySolution(rinfo))
           head == << <<"FietSAT report">>,
                      <<"Number of drivers", Len(drivers(dinfo))>>,
                      <<"Number of routes", Len(routes(rinfo))>> >>
           pr == PrintRoutes(rinfo, dec.solution, 1)
       IN IF dec.err # "" THEN [err |-> dec.err, solution |-> dec.solution, console |-> <<>>]
          ELSE IF mdl # <<>>
               THEN [err |-> pr.err, solution |-> dec.solution,
                     console |-> head \o << <<"SAT?", "Yes">> >> \o pr.lines]
               ELSE [err |-> "", solution |-> dec.solution,
                     console |-> head \o << <<"SAT?", "No">> >>]
  ELSE [err |-> "", solution |-> EmptySolution(rinfo), console |-> <<>>]

\* --------------------------------------------------------------------- solve
\* FietSAT.solve: the outcomes it can have: the solver's clauses after the
\* append, self.model and the value returned
solve(cls0, prob) ==
  LET cls == cls0 \cup ProblemClauses(prob)
      ms == Models(cls)
  IN IF ms # {}
     THEN {[solver |-> cls, model |-> m, ret |-> "True"] : m \in ms}
     ELSE {[solver |-> cls, model |-> <<>>, ret |-> "False"]}

\* ------------------------------------------------------------------- inputs
\* The two JSON files.  Routes files: no route, one route, one route whose id
\* is not its position, two routes.
RouteFiles ==
  { <<>>, <<[id |-> 1]>>, <<[id |-> 10]>>, <<[id |-> 1], [id |-> 2]>> }

\* the routes lists the drivers of a drivers file carry: one route, the route
\* whose id is not its position, two routes, and no route at all
EligLists == { <<1>>, <<10>>, <<1, 2>> }

\* a drivers file is a first block of drivers followed by a short second
\* block, no driver or one driver with no route, or by a second block of one
\* driver per level for route 2: <<number of drivers, their routes list>>
ShortBlocks == { <<0, <<>>>>, <<1, <<>>>> }

FullBlock == <<MaxExp, <<2>>>>

\* experience levels fall with the driver's position in its block from 4,
\* kept between a floor and a cap: <<floor, cap>>
ExpProfiles == { <<1, 4>>, <<2, 4>>, <<2, 2>> }

ExpAt(prof, i) == Min2(prof[2], Max2(prof[1], MaxExp + 1 - i))

\* a drivers with the routes list eligA, then b drivers with the routes list
\* eligB; the ids are the positions in the file
DriversFile(a, eligA, b, eligB, prof) ==
  [i \in 1..(a + b) |->
     [id |-> i,
      exp |-> IF i <= a THEN ExpAt(prof, i) ELSE ExpAt(prof, i - a),
      routes |-> IF i <= a THEN eligA ELSE eligB]]

OneRouteFiles ==
  { DriversFile(a, eligA, sb[1], sb[2], prof) :
      a \in 0..MaxDrivers, eligA \in EligLists, sb \in ShortBlocks,
      prof \in ExpProfiles }

\* in front of a full second block the first block has at most one driver
\* per level
TwoRouteFiles ==
  { DriversFile(a, eligA, FullBlock[1], FullBlock[2], prof) :
      a \in 0..MaxExp, eligA \in EligLists, prof \in ExpProfiles }

DriverFiles == OneRouteFiles \cup TwoRouteFiles

\* -------------------------------------------------------------------- state
VARIABLES
  pc,            \* "new" before the constructor, "ready" after it, "failed" when it raised
  drivers_fp,    \* the content of the drivers file
  routes_fp,     \* the content of the routes file
  drivers_info,  \* self.drivers_info
  routes_info,   \* self.routes_info
  syms,          \* self.syms
  solver,        \* the clauses self.solver holds
  problem,       \* self.problem
  model,         \* self.model
  auxVars,       \* the integers the cardinality encoder took from self.syms
  nFormulate,    \* calls of formulate so far
  nSolve,        \* calls of solve so far
  solveRet,      \* what the last solve returned, "none" before the first
  solveForms,    \* nFormulate when solve was last called
  verdicts,      \* the calls of solve made after a formulate: <<number of
                 \* formulate calls before it, what it returned>>
  reportRet,     \* "returned" or "KeyError" when the last call was report, else "none"
  solution,      \* the solution that report built
  console        \* the lines that report printed

vars == <<pc, drivers_fp, routes_fp, drivers_info, routes_info, syms, solver,
          problem, model, auxVars, nFormulate, nSolve, solveRet, solveForms,
          verdicts, reportRet, solution, console>>

Init ==
  /\ pc = "new"
  /\ routes_fp \in RouteFiles
  /\ drivers_fp \in DriverFiles
  /\ drivers_info = <<>>
  /\ routes_info = <<>>
  /\ syms = EmptyPool
  /\ solver = {}
  /\ problem = <<>>
  /\ model = <<>>
  /\ auxVars = {}
  /\ nFormulate = 0
  /\ nSolve = 0
  /\ solveRet = "none"
  /\ solveForms = 0
  /\ verdicts = {}
  /\ reportRet = "none"
  /\ solution = <<>>
  /\ console = <<>>

\* FietSAT.__init__
Construct ==
  /\ pc = "new"
  /\ LET p == parse(drivers_fp, routes_fp)
     IN IF p.err = ""
        THEN /\ pc' = "ready"
             /\ drivers_info' = p.drivers_info
             /\ routes_info' = p.routes_info
        ELSE /\ pc' = "failed"
             /\ UNCHANGED <<drivers_info, routes_info>>
  /\ UNCHANGED <<drivers_fp, routes_fp, syms, solver, problem, model, auxVars,
                 nFormulate, nSolve, solveRet, solveForms, verdicts, reportRet,
                 solution, console>>

Formulate ==
  /\ pc = "ready"
  /\ nFormulate < MaxFormulate
  /\ LET f == formulate(syms, drivers_info, routes_info)
     IN /\ syms' = f.pool
        /\ problem' = f.groups
        /\ auxVars' = auxVars \cup f.aux
  /\ nFormulate' = nFormulate + 1
  /\ reportRet' = "none"
  /\ solution' = <<>>
  /\ console' = <<>>
  /\ UNCHANGED <<pc, drivers_fp, routes_fp, drivers_info, routes_info, solver,
                 model, nSolve, solveRet, solveForms, verdicts>>

Solve ==
  /\ pc = "ready"
  /\ nSolve < MaxSolve
  /\ \E o \in solve(solver, problem) :
       /\ solver' = o.solver
       /\ model' = o.model
       /\ solveRet' = o.ret
       /\ verdicts' = IF nFormulate > 0
                      THEN verdicts \cup {<<nFormulate, o.ret>>}
                      ELSE verdicts
  /\ nSolve' = nSolve + 1
  /\ solveForms' = nFormulate
  /\ reportRet' = "none"
  /\ solution' = <<>>
  /\ console' = <<>>
  /\ UNCHANGED <<pc, drivers_fp, routes_fp, drivers_info, routes_info, syms,
                 problem, auxVars, nFormulate>>

Report ==
  /\ pc = "ready"
  /\ LET r == report(syms, model, drivers_info, routes_info)
     IN /\ reportRet' = IF r.err = "" THEN "returned" ELSE r.err
        /\ solution' = r.solution
        /\ console' = r.console
  /\ UNCHANGED <<pc, drivers_fp, routes_fp, drivers_info, routes_info, syms,
                 solver, problem, model, auxVars, nFormulate, nSolve, solveRet,
                 solveForms, verdicts>>

Next == Construct \/ Formulate \/ Solve \/ Report

Spec == Init /\ [][Next]_vars

\* ------------------------------------------------------------------- claims
RouteIdSet == Range(routes(routes_info))
DriverIdSet == Range(drivers(drivers_info))
Eligible(rid) == Range(drivers_of(routes_info, rid))
Reported == reportRet # "none"
Assigned(rid) == IF rid \in DOMAIN solution THEN solution[rid] ELSE <<>>

\* every (route, position) of the solution, with the pair found there
Entries ==
  UNION {{<<rid, i, solution[rid][i]>> : i \in DOMAIN solution[rid]} :
           rid \in DOMAIN solution}

\* C1: when solve, called after formulate, returned True, the solution that
\* report decodes holds for every route and every level 1..4 exactly one
\* (driver, level) pair, and that driver is eligible for the route.
C1_ExactlyOneDriverPerLevel ==
  (Reported /\ solveRet = "True" /\ solveForms > 0) =>
    /\ reportRet = "returned"
    /\ \A rid \in RouteIdSet : \A e \in 1..MaxExp :
         /\ Cardinality({i \in DOMAIN Assigned(rid) : Assigned(rid)[i][2] = e}) = 1
         /\ \A i \in DOMAIN Assigned(rid) :
              Assigned(rid)[i][2] = e => Assigned(rid)[i][1] \in Eligible(rid)

\* C2: no pair of a decoded solution has a level above the declared
\* experience level of its driver.
C2_ExperienceCeiling ==
  Reported => \A en \in Entries : en[3][2] <= exp(drivers_info, en[3][1])

\* a returned solution in which a driver below level 4 works at his own level
C2_Witness ==
  /\ reportRet = "returned"
  /\ \E en \in Entries : /\ en[3][2] = exp(drivers_info, en[3][1])
                         /\ en[3][2] < MaxExp

\* C3: in a decoded solution each driver appears in at most one (route, level)
\* pair over all routes and levels.
C3_OneAssignmentPerDriver ==
  Reported => \A e1 \in Entries : \A e2 \in Entries :
                e1[3][1] = e2[3][1] => e1 = e2

\* a returned solution that assigns a driver who is eligible for two routes
C3_Witness ==
  /\ reportRet = "returned"
  /\ \E en \in Entries : Len(routes_of(drivers_info, en[3][1])) = 2

\* C4: with a route that has fewer than four eligible drivers, solve after
\* formulate returns False and leaves the model empty.
C4_TooFewDriversUnsat ==
  (solveRet # "none" /\ solveForms > 0
     /\ \E rid \in RouteIdSet : Cardinality(Eligible(rid)) < 4)
  => (solveRet = "False" /\ model = <<>>)

\* solve after formulate on a domain with a route of two eligible drivers
\* and a route of none
C4_Witness ==
  /\ solveRet = "False"
  /\ solveForms > 0
  /\ \E rid \in RouteIdSet : Cardinality(Eligible(rid)) = 2
  /\ \E rid \in RouteIdSet : Eligible(rid) = {}

\* C5: report returns a mapping whose keys are exactly the route ids, and
\* every positive model literal with a name is recorded as (driver, level)
\* under the route of its name, whatever the route ids are.
C5_SolutionKeyedByRouteId ==
  Reported =>
    /\ reportRet = "returned"
    /\ DOMAIN solution = RouteIdSet
    /\ \A i \in DOMAIN model :
         (model[i] > 0 /\ obj(syms, model[i]) # None) =>
           \E en \in Entries :
             /\ en[1] = ParseSym(obj(syms, model[i]))[2]
             /\ en[3] = <<ParseSym(obj(syms, model[i]))[1],
                          ParseSym(obj(syms, model[i]))[3]>>

\* C6: after solve found the instance unsatisfiable, report returns a solution
\* with no pair for any route and prints the unsatisfiable verdict.
C6_UnsatVerdictPrinted ==
  (Reported /\ solveRet = "False") =>
    /\ reportRet = "returned"
    /\ \A rid \in DOMAIN solution : solution[rid] = <<>>
    /\ \E i \in DOMAIN console : console[i][1] = "SAT?" /\ console[i][2] = "No"

\* the (driver, route, level) triples formulate can name
Triples ==
  {<<d, r, e>> : d \in DriverIdSet, r \in RouteIdSet, e \in 1..MaxExp}

C7_State ==
  /\ \A n1 \in DOMAIN syms.obj2id : \A n2 \in DOMAIN syms.obj2id :
       syms.obj2id[n1] = syms.obj2id[n2] => n1 = n2
  /\ \A t \in Triples :
       SymName(t[1], t[2], t[3]) \in DOMAIN syms.obj2id =>
         /\ obj(syms, syms.obj2id[SymName(t[1], t[2], t[3])]) # None
         /\ ParseSym(obj(syms, syms.obj2id[SymName(t[1], t[2], t[3])])) = t
  /\ \A a \in auxVars : a \notin DOMAIN syms.id2obj /\ obj(syms, a) = None
  /\ \A n \in DOMAIN syms.obj2id : syms.obj2id[n] \notin auxVars

C7_Step ==
  \A n \in DOMAIN syms.obj2id :
    n \in DOMAIN syms'.obj2id /\ syms'.obj2id[n] = syms.obj2id[n]

\* C7: on one symbol table a triple keeps its integer over all later calls,
\* two triples never share an integer, no integer of a triple is handed out as
\* an auxiliary variable, obj(vid(d, r, e)) decodes to (d, r, e), and obj of an
\* auxiliary integer is None.
C7_SymbolTable == []C7_State /\ [][C7_Step]_vars

\* a table that served two formulate calls, with names and auxiliary variables
C7_Witness ==
  /\ nFormulate = 2
  /\ auxVars # {}
  /\ \E t \in Triples : /\ t[1] # t[2]
                        /\ SymName(t[1], t[2], t[3]) \in DOMAIN syms.obj2id

C8_State ==
  pc = "ready" =>
    \A i \in DOMAIN drivers_info : \A j \in DOMAIN routes_info :
      (drivers_info[i].id \in Range(routes_info[j].drivers))
        <=> (routes_info[j].id \in Range(drivers_info[i].routes))

C8_Step ==
  pc = "ready" => UNCHANGED <<drivers_info, routes_info>>

\* C8: after parse a driver id is in a route's drivers list exactly when the
\* route id is in the driver's routes list, and formulate, solve and report
\* leave the domain model as it is.
C8_InverseEligibility == []C8_State /\ [][C8_Step]_vars

\* formulate, solve and report all ran on a domain with a route that has
\* eligible drivers, a route that has none and a driver with no route
C8_Witness ==
  /\ pc = "ready" /\ nFormulate > 0 /\ nSolve > 0 /\ Reported
  /\ \E j \in DOMAIN routes_info : routes_info[j].drivers # <<>>
  /\ \E j \in DOMAIN routes_info : routes_info[j].drivers = <<>>
  /\ \E i \in DOMAIN drivers_info : drivers_info[i].routes = <<>>

\* what a clause group list allows the named variables to be: the sets of
\* named variables that are true in a model
NamedModels(prob, pool) ==
  {{l \in Range(m) : l \in DOMAIN pool.id2obj} : m \in Models(ProblemClauses(prob))}

C9_Step ==
  (nFormulate >= 1 /\ nFormulate' = nFormulate + 1) =>
    NamedModels(problem', syms') = NamedModels(problem, syms')

\* C9: formulate run again on the unchanged domain model gives clause groups
\* that allow the named variables the same values, and every solve made after
\* a formulate returns the same verdict.
C9_FormulateIdempotent ==
  /\ [](\A v \in verdicts : \A w \in verdicts : v[2] = w[2])
  /\ [][C9_Step]_vars

\* a satisfiable instance formulated twice and solved after each formulate
C9_Witness ==
  /\ nFormulate = 2
  /\ verdicts = {<<1, "True">>, <<2, "True">>}
  /\ model # <<>>

\* C10: after every solve, solve returned True exactly when self.model is not
\* empty.
C10_TrueIffModelNonEmpty ==
  solveRet # "none" => (solveRet = "True" <=> model # <<>>)

====
